---- MODULE Spec2Model ----
(***************************************************************************)
(* Model of v2/json/animation.rs of the gltf crate: the keyframe-animation *)
(* records (Animation, Channel, Target, Sampler), the serde default of     *)
(* Sampler.interpolation, and the Validate implementations of Animation    *)
(* and Channel.  Validation is a depth-first walk that reports errors to a *)
(* caller-supplied sink; the walk is modelled one report/visit at a time.  *)
(***************************************************************************)
EXTENDS Integers, Sequences, FiniteSets, TLC

VARIABLES
    root,     \* the parsed document: Root (lengths of nodes/accessors, the animations)
    pc,       \* position of the validation walk
    sink,     \* the errors reported so far, in report order
    visited,  \* the visits performed so far: <<animation, phase, element>>
    source,   \* deserialisation: the samplers of the JSON source still to be read
    parsed    \* deserialisation: the Sampler values produced so far

vars == <<root, pc, sink, visited, source, parsed>>

(***************************************************************************)
(* Bounds of the model.                                                    *)
(***************************************************************************)
MaxAnimations == 2   \* animations in a document
MaxElements == 2     \* samplers plus channels in a document
MaxIndex == 1        \* largest value an Index holds
NumNodes == 1        \* length of root.nodes
NumAccessors == 1    \* length of root.accessors
MaxSources == 2      \* samplers in a JSON source handed to the deserialiser

IndexValues == 0..MaxIndex

(***************************************************************************)
(* JsonPath (v2::validation): a rendered locator string.                   *)
(***************************************************************************)
JsonPathNew == ""

field(path, name) == IF path = "" THEN name ELSE path \o "." \o name

index(path, i) == path \o "[" \o ToString(i) \o "]"

(***************************************************************************)
(* Error (v2::validation) and the sink closure.                            *)
(***************************************************************************)
index_out_of_bounds(path) == [kind |-> "IndexOutOfBounds", path |-> path]

report(s, err) == Append(s, err)

(***************************************************************************)
(* Deserialisation of a Sampler.  An Option is a sequence of length <= 1.  *)
(***************************************************************************)
\* the default of String instead of the named default function
sampler_interpolation_empty == ""

sampler_interpolation_default == "LINEAR"

InterpolationSources == {<<>>, <<"LINEAR">>, <<"STEP">>}

SamplerSources ==
    [input : IndexValues, interpolation : InterpolationSources, output : IndexValues]

DeserializeSampler(src) ==
    [input |-> src.input,
     interpolation |-> IF src.interpolation = <<>>
                       THEN sampler_interpolation_default
                       ELSE src.interpolation[1],
     output |-> src.output]

(***************************************************************************)
(* The records.                                                            *)
(***************************************************************************)
Samplers ==
    [input : IndexValues, interpolation : {sampler_interpolation_default},
     output : IndexValues]

Targets == [node : IndexValues, path : {"translation"}]

Channels == [sampler : IndexValues, target : Targets]

\* how many samplers and channels each of n animations holds: <<samplers, channels>>
Shapes(n) == [1..n -> (0..MaxElements) \X (0..MaxElements)]

RECURSIVE Sum(_, _, _)
Sum(shape, c, n) == IF n = 0 THEN 0 ELSE shape[n][c] + Sum(shape, c, n - 1)

\* the animations of a document: the samplers ss and the channels cs of the whole
\* document, dealt out front to back to the animations as shape says
Deal(shape, ss, cs) ==
    [a \in 1..Len(shape) |->
        [samplers |-> SubSeq(ss, Sum(shape, 1, a - 1) + 1, Sum(shape, 1, a)),
         channels |-> SubSeq(cs, Sum(shape, 2, a - 1) + 1, Sum(shape, 2, a))]]

(***************************************************************************)
(* Validation.                                                             *)
(***************************************************************************)
\* impl Validate for Index<T>: the index resolves in the collection of the root.
IndexValidate(value, length, path, s) ==
    IF value >= length THEN report(s, index_out_of_bounds(path)) ELSE s

\* Target::validate (derived): its node resolves in root.nodes; extensions, extras
\* and path emit nothing
TargetValidate(target, path, s) ==
    IndexValidate(target.node, root.nodes, field(path, "node"), s)

\* the bounds check first, the children after it
AnimationPhasesCheckFirst == <<"check", "samplers", "channels">>

\* the statements of Animation::validate, in program order
AnimationPhases == <<"samplers", "channels", "check">>

\* the channels walked back to front
enumerateRev(channels) ==
    [k \in 1..Len(channels) |->
        [index |-> Len(channels) - k, channel |-> channels[Len(channels) - k + 1]]]

\* self.channels.iter().enumerate(): zero-based positions, front to back
enumerate(channels) ==
    [k \in 1..Len(channels) |-> [index |-> k - 1, channel |-> channels[k]]]

\* > in place of >=: the boundary value passes
SamplerOutOfBoundsStrict(channel, animation) ==
    channel.sampler > Len(animation.samplers)

\* the last valid index rejected
SamplerOutOfBoundsEarly(channel, animation) ==
    channel.sampler + 1 >= Len(animation.samplers)

\* the index resolved against the samplers of the whole document
RECURSIVE DocumentSamplers(_)
DocumentSamplers(n) ==
    IF n = 0 THEN 0 ELSE Len(root.animations[n].samplers) + DocumentSamplers(n - 1)

SamplerOutOfBoundsDocument(channel, animation) ==
    channel.sampler >= DocumentSamplers(Len(root.animations))

\* channel.sampler.value() as usize >= self.samplers.len()
SamplerOutOfBounds(channel, animation) ==
    channel.sampler >= Len(animation.samplers)

\* format!("channels[{}].sampler", index)
ChannelSamplerField(i) == "channels[" \o ToString(i) \o "].sampler"

\* the path Root::validate gives to animation a (1-based position a)
AnimationPath(a) == index(field(JsonPathNew, "animations"), a - 1)

Start == [state |-> "validate", a |-> 1, ph |-> 1, j |-> 1, f |-> "input"]

InAnimation ==
    /\ pc.state = "validate"
    /\ pc.a <= Len(root.animations)
    /\ pc.ph <= Len(AnimationPhases)

CurAnimation == root.animations[pc.a]

CurPhase == AnimationPhases[pc.ph]

PhaseLen == IF CurPhase = "samplers" THEN Len(CurAnimation.samplers)
            ELSE Len(CurAnimation.channels)

\* Sampler::validate (derived), field input, for element j of self.samplers
SamplerInput ==
    /\ InAnimation /\ CurPhase = "samplers" /\ pc.j <= PhaseLen /\ pc.f = "input"
    /\ sink' = IndexValidate(CurAnimation.samplers[pc.j].input, root.accessors,
                   field(index(field(AnimationPath(pc.a), "samplers"), pc.j - 1),
                         "input"), sink)
    /\ pc' = [pc EXCEPT !.f = "output"]
    /\ UNCHANGED <<root, visited, source, parsed>>

\* Sampler::validate (derived), field output; the element is then done
SamplerOutput ==
    /\ InAnimation /\ CurPhase = "samplers" /\ pc.j <= PhaseLen /\ pc.f = "output"
    /\ sink' = IndexValidate(CurAnimation.samplers[pc.j].output, root.accessors,
                   field(index(field(AnimationPath(pc.a), "samplers"), pc.j - 1),
                         "output"), sink)
    /\ pc' = [pc EXCEPT !.f = "input", !.j = pc.j + 1]
    /\ visited' = visited \cup {<<pc.a, "samplers", pc.j>>}
    /\ UNCHANGED <<root, source, parsed>>

\* Channel::validate for element j of self.channels: nop
ChannelValidate ==
    /\ InAnimation /\ CurPhase = "channels" /\ pc.j <= PhaseLen
    /\ pc' = [pc EXCEPT !.j = pc.j + 1]
    /\ visited' = visited \cup {<<pc.a, "channels", pc.j>>}
    /\ UNCHANGED <<root, sink, source, parsed>>

\* the loop left at the first error, and with it the rest of the walk
CheckChannelFailFast ==
    /\ InAnimation /\ CurPhase = "check" /\ pc.j <= PhaseLen
    /\ LET item == enumerate(CurAnimation.channels)[pc.j]
       IN  IF SamplerOutOfBounds(item.channel, CurAnimation)
           THEN /\ sink' = report(sink, index_out_of_bounds(
                        field(AnimationPath(pc.a), ChannelSamplerField(item.index))))
                /\ pc' = [pc EXCEPT !.state = "done"]
           ELSE /\ sink' = sink
                /\ pc' = [pc EXCEPT !.j = pc.j + 1]
    /\ visited' = visited \cup {<<pc.a, "check", pc.j>>}
    /\ UNCHANGED <<root, source, parsed>>

\* the error stored in place of the sink's content instead of added to it
CheckChannelOverwrite ==
    /\ InAnimation /\ CurPhase = "check" /\ pc.j <= PhaseLen
    /\ LET item == enumerate(CurAnimation.channels)[pc.j]
       IN  sink' = IF SamplerOutOfBounds(item.channel, CurAnimation)
                   THEN <<index_out_of_bounds(
                            field(AnimationPath(pc.a), ChannelSamplerField(item.index)))>>
                   ELSE sink
    /\ pc' = [pc EXCEPT !.j = pc.j + 1]
    /\ visited' = visited \cup {<<pc.a, "check", pc.j>>}
    /\ UNCHANGED <<root, source, parsed>>

\* one iteration of the for loop of Animation::validate
CheckChannel ==
    /\ InAnimation /\ CurPhase = "check" /\ pc.j <= PhaseLen
    /\ LET item == enumerate(CurAnimation.channels)[pc.j]
       IN  sink' = IF SamplerOutOfBounds(item.channel, CurAnimation)
                   THEN report(sink, index_out_of_bounds(
                            field(AnimationPath(pc.a), ChannelSamplerField(item.index))))
                   ELSE sink
    /\ pc' = [pc EXCEPT !.j = pc.j + 1]
    /\ visited' = visited \cup {<<pc.a, "check", pc.j>>}
    /\ UNCHANGED <<root, source, parsed>>

\* a statement of Animation::validate has run over its whole sequence
PhaseDone ==
    /\ InAnimation /\ pc.j > PhaseLen
    /\ pc' = [pc EXCEPT !.ph = pc.ph + 1, !.j = 1]
    /\ visited' = visited \cup {<<pc.a, CurPhase, 0>>}
    /\ UNCHANGED <<root, sink, source, parsed>>

\* Animation::validate returns; Root goes on to the next animation
AnimationDone ==
    /\ pc.state = "validate" /\ pc.a <= Len(root.animations)
    /\ pc.ph > Len(AnimationPhases)
    /\ pc' = [pc EXCEPT !.a = pc.a + 1, !.ph = 1]
    /\ UNCHANGED <<root, sink, visited, source, parsed>>

\* validation of the document returns to the caller
RootDone ==
    /\ pc.state = "validate" /\ pc.a > Len(root.animations)
    /\ pc' = [pc EXCEPT !.state = "done"]
    /\ UNCHANGED <<root, sink, visited, source, parsed>>

Init ==
    /\ \E n \in 0..MaxAnimations, ns \in 0..MaxElements, nc \in 0..MaxElements :
          /\ ns + nc <= MaxElements
          /\ \E shape \in Shapes(n) :
                /\ Sum(shape, 1, n) = ns
                /\ Sum(shape, 2, n) = nc
                /\ \E ss \in [1..ns -> Samplers], cs \in [1..nc -> Channels] :
                      root = [nodes |-> NumNodes, accessors |-> NumAccessors,
                              animations |-> Deal(shape, ss, cs)]
    /\ pc = Start
    /\ sink = <<>>
    /\ visited = {}
    /\ source = <<>>
    /\ parsed = <<>>

Next ==
    \/ SamplerInput
    \/ SamplerOutput
    \/ ChannelValidate
    \/ CheckChannel
    \/ PhaseDone
    \/ AnimationDone
    \/ RootDone

Spec == Init /\ [][Next]_vars

FairSpec == Spec /\ WF_vars(Next)

(***************************************************************************)
(* Deserialisation of the samplers of a JSON source, one element a step.   *)
(***************************************************************************)
NoRoot == [nodes |-> 0, accessors |-> 0, animations |-> <<>>]

ParseInit ==
    /\ source \in UNION {[1..n -> SamplerSources] : n \in 0..MaxSources}
    /\ parsed = <<>>
    /\ root = NoRoot
    /\ pc = [state |-> "parse", a |-> 1, ph |-> 1, j |-> 1, f |-> "input"]
    /\ sink = <<>>
    /\ visited = {}

ParseSampler ==
    /\ pc.state = "parse"
    /\ Len(parsed) < Len(source)
    /\ parsed' = Append(parsed, DeserializeSampler(source[Len(parsed) + 1]))
    /\ UNCHANGED <<root, pc, sink, visited, source>>

ParseNext == ParseSampler

ParseSpec == ParseInit /\ [][ParseNext]_vars

(***************************************************************************)
(* Vocabulary of the properties.                                           *)
(***************************************************************************)
Done == pc.state = "done"

Animations == 1..Len(root.animations)

ChannelsOf(a) == 1..Len(root.animations[a].channels)

SamplersOf(a) == 1..Len(root.animations[a].samplers)

\* does channel k of animation a refer past the samplers of animation a
OutOfBounds(a, k) ==
    root.animations[a].channels[k].sampler >= Len(root.animations[a].samplers)

\* the caller's path of animation a extended with channels[i].sampler, i zero-based
ChannelSamplerPath(a, i) ==
    field(index(field(AnimationPath(a), "channels"), i), "sampler")

ChannelError(a, k) == index_out_of_bounds(ChannelSamplerPath(a, k - 1))

\* the path of channel k of animation a
ChannelPath(a, k) == index(field(AnimationPath(a), "channels"), k - 1)

SamplerPaths(a) ==
    {field(index(field(AnimationPath(a), "samplers"), j - 1), f) :
        j \in SamplersOf(a), f \in {"input", "output"}}

ChannelChildPaths(a) ==
    {field(field(ChannelPath(a, k), "target"), "node") : k \in ChannelsOf(a)}

ChannelSamplerPaths(a) == {ChannelSamplerPath(a, k - 1) : k \in ChannelsOf(a)}

Positions(s, err) == {p \in 1..Len(s) : s[p] = err}

Count(s, err) == Cardinality(Positions(s, err))

Reported(err) == Positions(sink, err) # {}

\* every visit a complete walk of the document makes
ExpectedVisits ==
    UNION {({<<a, "samplers", j>> : j \in 0..Len(root.animations[a].samplers)}
            \cup {<<a, ph, k>> : ph \in {"channels", "check"},
                                 k \in 0..Len(root.animations[a].channels)}) :
           a \in Animations}

\* the errors of a document in report order, as a function of the document
SamplerErrors(a, j) ==
    LET sm == root.animations[a].samplers[j]
        p  == index(field(AnimationPath(a), "samplers"), j - 1)
    IN  (IF sm.input >= root.accessors
         THEN <<index_out_of_bounds(field(p, "input"))>> ELSE <<>>)
        \o (IF sm.output >= root.accessors
            THEN <<index_out_of_bounds(field(p, "output"))>> ELSE <<>>)

RECURSIVE SamplersErrors(_, _)
SamplersErrors(a, n) ==
    IF n = 0 THEN <<>> ELSE SamplersErrors(a, n - 1) \o SamplerErrors(a, n)

RECURSIVE BoundsErrors(_, _)
BoundsErrors(a, n) ==
    IF n = 0 THEN <<>>
    ELSE BoundsErrors(a, n - 1)
         \o (IF OutOfBounds(a, n) THEN <<ChannelError(a, n)>> ELSE <<>>)

RECURSIVE DocumentErrors(_)
DocumentErrors(n) ==
    IF n = 0 THEN <<>>
    ELSE DocumentErrors(n - 1)
         \o SamplersErrors(n, Len(root.animations[n].samplers))
         \o BoundsErrors(n, Len(root.animations[n].channels))

(***************************************************************************)
(* Properties.                                                             *)
(***************************************************************************)
\* C1: when validation has returned, every channel whose sampler index is >= the
\* length of its animation's samplers (the boundary value == length and an empty
\* sampler sequence included) has exactly one IndexOutOfBounds error in the sink,
\* at the animation's path extended with channels[i].sampler, one per such channel.
C1_Detection ==
    Done => \A a \in Animations : \A k \in ChannelsOf(a) :
                OutOfBounds(a, k) => Count(sink, ChannelError(a, k)) = 1

\* two offending channels of one animation with no samplers, one of them at the
\* boundary value == length, each reported once
C1_Witness ==
    /\ Done
    /\ \E a \in Animations :
          /\ Len(root.animations[a].samplers) = 0
          /\ Len(root.animations[a].channels) = 2
          /\ root.animations[a].channels[1].sampler = 0
          /\ root.animations[a].channels[2].sampler > 0
          /\ Count(sink, ChannelError(a, 1)) = 1
          /\ Count(sink, ChannelError(a, 2)) = 1

\* C2: no false positives: at no point of validation does the sink hold an
\* IndexOutOfBounds error at channels[i].sampler for a channel whose sampler index
\* is below the length of its animation's samplers; a document whose animations
\* have no channels and no samplers yields no error at all.
C2_NoFalsePositives ==
    /\ \A a \in Animations : \A k \in ChannelsOf(a) :
          ~OutOfBounds(a, k) => Count(sink, ChannelError(a, k)) = 0
    /\ (\A a \in Animations : ChannelsOf(a) = {} /\ SamplersOf(a) = {}) => sink = <<>>

\* validation has returned for an animation whose channels are all in bounds, one
\* of them referring to the last sampler
C2_Witness ==
    /\ Done
    /\ \E a \in Animations :
          /\ ChannelsOf(a) # {}
          /\ \A k \in ChannelsOf(a) : ~OutOfBounds(a, k)
          /\ \E k \in ChannelsOf(a) :
                root.animations[a].channels[k].sampler + 1
                    = Len(root.animations[a].samplers)
          /\ \A k \in ChannelsOf(a) : ~Reported(ChannelError(a, k))

\* C3: a clean run is sound: if validation has returned with no error, then every
\* Index of every animation is in bounds: Channel.sampler for the animation's
\* samplers, Target.node for the nodes and Sampler.input/output for the accessors.
C3_CleanRunSound ==
    (Done /\ sink = <<>>) =>
        \A a \in Animations :
            /\ \A k \in ChannelsOf(a) :
                  /\ ~OutOfBounds(a, k)
                  /\ root.animations[a].channels[k].target.node < root.nodes
            /\ \A j \in SamplersOf(a) :
                  /\ root.animations[a].samplers[j].input < root.accessors
                  /\ root.animations[a].samplers[j].output < root.accessors

\* C4: errors come in document order and the result is a function of the document:
\* for out-of-bounds channels at positions i < j of an animation the error for i is
\* before the error for j, an earlier animation's channel errors are before a later
\* one's, and the returned sequence is the one the document determines.
C4_Order ==
    Done =>
        /\ \A a \in Animations, b \in Animations :
              \A i \in ChannelsOf(a), j \in ChannelsOf(b) :
                 (/\ a < b \/ (a = b /\ i < j)
                  /\ OutOfBounds(a, i) /\ OutOfBounds(b, j))
                 => \A p \in Positions(sink, ChannelError(a, i)) :
                        \A q \in Positions(sink, ChannelError(b, j)) : p < q
        /\ sink = DocumentErrors(Len(root.animations))

\* two out-of-bounds channels of one animation, both reported
C4_Witness ==
    /\ Done
    /\ \E a \in Animations : \E i \in ChannelsOf(a), j \in ChannelsOf(a) :
          /\ i < j /\ OutOfBounds(a, i) /\ OutOfBounds(a, j)
          /\ Reported(ChannelError(a, i)) /\ Reported(ChannelError(a, j))

\* C5: a channel's sampler index is scoped to its own animation: when validation
\* has returned, a channel of animation a is reported exactly when its index is
\* >= the length of a's own samplers, whatever the other animations hold.
C5_LocalScope ==
    Done => \A a \in Animations : \A k \in ChannelsOf(a) :
                Reported(ChannelError(a, k)) <=> OutOfBounds(a, k)

\* a reported channel whose index is in bounds for another animation's samplers
C5_Witness ==
    /\ Done
    /\ \E a \in Animations, b \in Animations : \E k \in ChannelsOf(a) :
          /\ a > b
          /\ OutOfBounds(a, k)
          /\ root.animations[a].channels[k].sampler < Len(root.animations[b].samplers)
          /\ Reported(ChannelError(a, k))

\* C6: validation terminates, and when it has returned every sampler and every
\* channel was visited, both sequences were walked to their end and the bounds
\* check ran for every channel position, however many errors were reported.
C6_Total == <>(Done /\ visited = ExpectedVisits)

\* a complete walk of two animations that reported in the first one
C6_Witness ==
    /\ Done
    /\ visited = ExpectedVisits
    /\ Len(root.animations) = 2
    /\ \E k \in ChannelsOf(1) : Reported(ChannelError(1, k))
    /\ ChannelsOf(2) # {}

\* C7: a Sampler deserialised from a source without interpolation has
\* interpolation "LINEAR"; one deserialised from a source with interpolation keeps
\* the value of the source.
C7_DefaultLaw ==
    \A k \in 1..Len(parsed) :
        /\ source[k].interpolation = <<>> => parsed[k].interpolation = "LINEAR"
        /\ source[k].interpolation # <<>>
              => parsed[k].interpolation = source[k].interpolation[1]

\* a source omitting interpolation and a source supplying "STEP", both deserialised
C7_Witness ==
    /\ Len(parsed) = 2
    /\ source[1].interpolation = <<>>
    /\ source[2].interpolation = <<"STEP">>
    /\ parsed[1].interpolation = "LINEAR"
    /\ parsed[2].interpolation = "STEP"

\* C8: a Channel validates its Target at its own path extended with target: when
\* validation has returned, every error the Target of a channel emits when
\* validated there is in the sink.
C8_ChannelValidatesTarget ==
    Done => \A a \in Animations : \A k \in ChannelsOf(a) :
                LET errs == TargetValidate(root.animations[a].channels[k].target,
                                           field(ChannelPath(a, k), "target"), <<>>)
                IN  \A n \in 1..Len(errs) : Reported(errs[n])

\* C9: within one animation the errors of the sampler sequence are before the
\* errors of the channel sequence, and both are before the errors of the
\* animation's own bounds check.
C9_ChildrenFirst ==
    \A a \in Animations :
        LET ofSamplers == SamplerPaths(a)
            ofChannels == ChannelChildPaths(a)
            ofCheck    == ChannelSamplerPaths(a)
        IN  \A p \in 1..Len(sink), q \in 1..Len(sink) :
                /\ (/\ sink[p].path \in ofSamplers
                    /\ sink[q].path \in ofChannels \cup ofCheck)
                   => p < q
                /\ (/\ sink[p].path \in ofChannels
                    /\ sink[q].path \in ofCheck)
                   => p < q

\* an animation with an error of a sampler and an error of the bounds check
C9_Witness ==
    /\ Done
    /\ \E a \in Animations : \E p \in 1..Len(sink), q \in 1..Len(sink) :
          /\ sink[p].path \in SamplerPaths(a)
          /\ sink[q].path \in ChannelSamplerPaths(a)

\* C10: every step of validation leaves the sink unchanged or appends one error
\* to its end, and leaves the document unchanged.
C10_AppendOnly ==
    [][/\ Len(sink') \in {Len(sink), Len(sink) + 1}
       /\ SubSeq(sink', 1, Len(sink)) = sink
       /\ root' = root]_vars

\* two channels with the same out-of-bounds sampler index, reported twice
C10_Witness ==
    /\ Done
    /\ Len(sink) = 2
    /\ \E a \in Animations :
          /\ Len(root.animations[a].channels) = 2
          /\ root.animations[a].channels[1].sampler
                = root.animations[a].channels[2].sampler
          /\ OutOfBounds(a, 1)
          /\ sink = <<ChannelError(a, 1), ChannelError(a, 2)>>

====
